---- MODULE Spec2Model ----
(***************************************************************************)
(* Model of src/bot.py: the two module-level caches (user stats behind     *)
(* _fetch_lock, market prices without a lock), the upstream fetches that   *)
(* fill them, and the coroutines that call get_stats_cached and            *)
(* get_market_cached under asyncio's cooperative scheduler.                *)
(*                                                                         *)
(* A step of the model is what one coroutine does between two suspension   *)
(* points (an await that really yields).  Optional values are sets of at   *)
(* most one element: None is {} and the value x is {x}.                    *)
(***************************************************************************)
EXTENDS Integers, Sequences, FiniteSets, TLC

VARIABLES
    clock,              \* time.monotonic()
    _fetch_lock,        \* bot.py:137, asyncio.Lock: [locked, waiters]
    _cache_ts,          \* bot.py:138
    _cache_data,        \* bot.py:139
    _market_cache_ts,   \* bot.py:206
    _market_cache,      \* bot.py:207
    pc,                 \* where each task is: idle, waiting, fetching, mfetching
    call,               \* the call each task is in: its arguments and its history
    last,               \* the call that returned or raised in the step just taken, and its outcome
    hist,               \* how the completed fetch_stats invocations went so far
    workload,           \* the handlers used in this run: stats, market, both, charts, analyzer, prices
    chart_series,       \* bot.py:409, the series given to the analyzer
    nearest,            \* the last nearest_price call: its target and what it gave
    chg,                \* bot.py:415, what the last calc_changes_from_series call gave
    CHART_PREFS,        \* bot.py:341, chat_id -> [coin, tf]
    seen,               \* what calc_changes_from_series gave when first called on a series
    crypto,             \* the last fetch_crypto_prices call: the answers, the providers asked, the prices
    chart_req           \* bot.py:405-409, the chat, coin and tf of the last chart asked for

vars == <<clock, _fetch_lock, _cache_ts, _cache_data, _market_cache_ts, _market_cache,
          pc, call, last, hist, workload, chart_series, nearest, chg,
          CHART_PREFS, seen, crypto, chart_req>>

cacheVars == <<_cache_ts, _cache_data>>
marketVars == <<_market_cache_ts, _market_cache>>
chartVars == <<chart_series, nearest, chg, CHART_PREFS, seen>>
probeVars == <<crypto, chart_req>>

(***************************************************************************)
(* Bounds of the model.                                                    *)
(***************************************************************************)
NumTasks == 2
MaxTicks == 2
MaxSeriesLen == 3

Tasks == 1..NumTasks

(***************************************************************************)
(* Configuration read from the environment, with the defaults of bot.py.   *)
(***************************************************************************)
CACHE_TTL == 30
CRYPTO_CACHE_TTL == 30

\* The model's clock advances in steps of half the TTL.
TickStep == CACHE_TTL \div 2

None == {}
Some(x) == {x}

(***************************************************************************)
(* fetch_stats: the HTTP exchange and the parsing of its payload.          *)
(***************************************************************************)
\* A JSON scalar as the site may send it.
Raw(ty, v) == [ty |-> ty, v |-> v]
RawNull == Raw("null", 0)

\* int(x) if x is not None else None, inside try/except -> None
ToInt(raw) ==
    CASE raw.ty = "null" -> None
      [] raw.ty = "int"  -> Some(raw.v)
      [] raw.ty = "str"  -> Some(raw.v)     \* a numeric string such as "2"
      [] OTHER           -> None            \* int() raised

StatsPayload(kind, shape, users, juiced) ==
    [kind |-> kind, shape |-> shape, users |-> users, juiced |-> juiced]

\* What the upstream of fetch_stats may answer.
StatsResponses ==
    { StatsPayload("timeout", "none", RawNull, RawNull),
      StatsPayload("status", "none", RawNull, RawNull),
      StatsPayload("badjson", "none", RawNull, RawNull),
      StatsPayload("json", "totals", Raw("int", 1), Raw("int", 1)),
      StatsPayload("json", "flat", Raw("str", 2), Raw("int", 1)),
      StatsPayload("json", "totals", Raw("bad", 0), Raw("int", 1)),
      StatsPayload("json", "list", RawNull, RawNull) }

\* client.get raised, raise_for_status raised, or r.json() raised
StatsRaises(p) == p.kind # "json"

\* the (users, juiced) tuple fetch_stats returns for a JSON payload
ParseStats(p) ==
    IF p.shape \in {"totals", "flat"}
    THEN <<ToInt(p.users), ToInt(p.juiced)>>
    ELSE <<None, None>>

(***************************************************************************)
(* fetch_crypto_prices and fetch_usd_rub                                   *)
(***************************************************************************)
\* An HTTP exchange: ok (status 200, well-formed, value v), status (not 200),
\* timeout (the request raised), malformed (status 200, parsing raised).
Resp(kind, v) == [kind |-> kind, v |-> v]

NoPrices == [BTC |-> None, ETH |-> None, BNB |-> None]
NoMarket == [BTC |-> None, ETH |-> None, BNB |-> None, USD_RUB |-> None]

\* the `if status_code == 200: prices[s] = float(...)` lines of one provider,
\* in order, up to the first that raises
RECURSIVE Assign(_, _, _)
Assign(prices, syms, rs) ==
    IF syms = <<>>
    THEN [prices |-> prices, raised |-> FALSE]
    ELSE LET s == Head(syms)
             r == rs[s]
         IN  CASE r.kind = "status" -> Assign(prices, Tail(syms), rs)
               [] r.kind = "ok"     -> Assign([prices EXCEPT ![s] = Some(r.v)], Tail(syms), rs)
               [] OTHER             -> [prices |-> prices, raised |-> TRUE]

\* one try block: all the requests first, then the assignments
Provider(prices, syms, rs) ==
    IF \E i \in 1..Len(syms) : rs[syms[i]].kind = "timeout"
    THEN [prices |-> prices, raised |-> TRUE]
    ELSE Assign(prices, syms, rs)

\* b: the answers of Binance, c: the answers of Coinbase
FetchCryptoPrices(b, c) ==
    LET first == Provider(NoPrices, <<"BTC", "ETH", "BNB">>, b)
    IN  IF ~first.raised
        THEN first.prices
        ELSE Provider(first.prices, <<"BTC", "ETH">>, c).prices

\* the second try block (lines 221-228) is reached: the first one raised
\* before its return of line 219
CoinbaseTried(b) == Provider(NoPrices, <<"BTC", "ETH", "BNB">>, b).raised

\* one provider of the rate: a number from a 200 answer, else nothing
RateOf(x) == IF x.kind = "ok" THEN Some(x.v) ELSE None

FetchUsdRub(x1, x2) == IF RateOf(x1) # None THEN RateOf(x1) ELSE RateOf(x2)

AllResp(kind, v) == [s \in {"BTC", "ETH", "BNB"} |-> Resp(kind, v)]
Upstream(b, c, x1, x2) == [b |-> b, c |-> c, x1 |-> x1, x2 |-> x2]

\* What the upstreams of a market refresh may answer.
MarketResponses ==
    { Upstream(AllResp("ok", 1), AllResp("ok", 1), Resp("ok", 9), Resp("ok", 9)),
      Upstream(AllResp("ok", 2), AllResp("ok", 2), Resp("status", 0), Resp("timeout", 0)),
      Upstream([AllResp("ok", 1) EXCEPT !["BTC"] = Resp("timeout", 0)], AllResp("ok", 1),
               Resp("timeout", 0), Resp("ok", 9)),
      Upstream(AllResp("timeout", 0), AllResp("status", 0), Resp("timeout", 0), Resp("malformed", 0)) }

\* every request of the refresh failed
UpstreamFailed(u) ==
    /\ \A s \in {"BTC", "ETH", "BNB"} : u.b[s].kind # "ok"
    /\ \A s \in {"BTC", "ETH"} : u.c[s].kind # "ok"
    /\ u.x1.kind # "ok"
    /\ u.x2.kind # "ok"

\* the dict get_market_cached builds at line 266
MarketOf(u) ==
    LET prices == FetchCryptoPrices(u.b, u.c)
    IN  [BTC |-> prices.BTC, ETH |-> prices.ETH, BNB |-> prices.BNB,
         USD_RUB |-> FetchUsdRub(u.x1, u.x2)]

(***************************************************************************)
(* Calls and their outcomes                                                *)
(***************************************************************************)
NoRet == [kind |-> "none", stats |-> <<None, None>>, market |-> NoMarket, err |-> "none"]
RetStats(d) == [NoRet EXCEPT !.kind = "value", !.stats = d]
RetMarket(m) == [NoRet EXCEPT !.kind = "value", !.market = m]
RetError(e) == [NoRet EXCEPT !.kind = "error", !.err = e]

\* fn, force: the call; nfetch: upstream fetches it invoked so far;
\* young0, usable0: at the call, the entry's age was < TTL, its value usable;
\* joined: the call arrived during an in-flight fetch of its key (inflight), which
\*   then stored a usable value (ok), stored an unusable one (unusable) or raised;
\* jforced: that fetch was a forced call's;
\* stored: a fetch of the key has stored its result since the call began
NoCall == [fn |-> "none", force |-> FALSE, nfetch |-> 0, young0 |-> FALSE, usable0 |-> FALSE,
           joined |-> "no", jforced |-> FALSE, stored |-> FALSE]

\* hit: the check that returned the cached value (fast, recheck) or none;
\* fetchErr: what the call's fetch raised; upFailed: every upstream request failed
NoLast == [call |-> NoCall, hit |-> "none", ret |-> NoRet, fetchErr |-> "none", upFailed |-> FALSE]

Idle(c) == pc[c] = "idle"
StatsFetching(c) == pc[c] = "fetching"
MarketFetching(c) == pc[c] = "mfetching"

\* the call of task c as it starts
NewCall(c, key, f, usable, ttl, ts) ==
    LET others == {e \in Tasks \ {c} : \/ key = "stats" /\ StatsFetching(e)
                                       \/ key = "market" /\ MarketFetching(e)}
    IN  [fn |-> key, force |-> f, nfetch |-> 0,
         young0 |-> (clock - ts) < ttl, usable0 |-> usable,
         joined |-> IF others # {} THEN "inflight" ELSE "no",
         jforced |-> \E e \in others : call[e].force,
         stored |-> FALSE]

\* the calls in progress learn how the fetch they joined has ended, and that
\* a fetch of their key has stored its result
Settle(key, c, outcome) ==
    [d \in Tasks |->
        IF d # c /\ call[d].fn = key
        THEN [call[d] EXCEPT !.joined = IF @ = "inflight" THEN outcome ELSE @,
                             !.stored = @ \/ outcome # "raised"]
        ELSE call[d]]

\* task c's call is over
Finish(c, cl, hit, r, e, uf) ==
    /\ pc' = [pc EXCEPT ![c] = "idle"]
    /\ last' = [call |-> cl, hit |-> hit, ret |-> r, fetchErr |-> e, upFailed |-> uf]

(***************************************************************************)
(* get_stats_cached                                                        *)
(***************************************************************************)
\* a slip: any() where the code has all()
StatsUsable_Any(d) == \E i \in 1..2 : d[i] # None

\* all(v is not None for v in _cache_data)
StatsUsable(d) == \A i \in 1..2 : d[i] # None

\* a slip: the boundary age counts as fresh
FastHit_Inclusive(f, now) ==
    ~f /\ (now - _cache_ts) <= CACHE_TTL /\ StatsUsable(_cache_data)

\* a slip: force is not looked at
FastHit_IgnoresForce(f, now) ==
    (now - _cache_ts) < CACHE_TTL /\ StatsUsable(_cache_data)

\* a slip: the check before the lock never succeeds, every call goes to the lock
FastHit_Never(f, now) == FALSE

\* line 163: the check made before the lock
FastHit(f, now) ==
    ~f /\ (now - _cache_ts) < CACHE_TTL /\ StatsUsable(_cache_data)

\* a slip: under the lock an unforced caller takes the entry as it is
ReHit_AnyEntry(f, now) == ~f

\* a slip: under the lock force is not looked at, so a forced caller that
\* waited shares the fetch it waited for
ReHit_IgnoresForce(f, now) ==
    (now - _cache_ts) < CACHE_TTL /\ StatsUsable(_cache_data)

\* line 167: the check made again under the lock
ReHit(f, now) ==
    ~f /\ (now - _cache_ts) < CACHE_TTL /\ StatsUsable(_cache_data)

\* a slip: the fetch is not guarded by the lock
CanAcquire_Unguarded == TRUE

\* a slip: one lock for both keys, held during a market refresh as well
CanAcquire_SharedLock ==
    /\ ~_fetch_lock.locked /\ _fetch_lock.waiters = <<>>
    /\ \A d \in Tasks : ~MarketFetching(d)

\* asyncio.Lock.acquire returns at once: not locked and nobody queued
CanAcquire == ~_fetch_lock.locked /\ _fetch_lock.waiters = <<>>

\* lines 166-169 and the exit of the async with block, run by task c with the
\* lock held, cl its call and w the tasks still queued
UnderLock(c, cl, w) ==
    IF ReHit(cl.force, clock)
    THEN /\ Finish(c, cl, "recheck", RetStats(_cache_data), "none", FALSE)
         /\ call' = [call EXCEPT ![c] = NoCall]
         /\ _fetch_lock' = [locked |-> FALSE, waiters |-> w]
    ELSE /\ pc' = [pc EXCEPT ![c] = "fetching"]
         /\ call' = [call EXCEPT ![c] = [cl EXCEPT !.nfetch = @ + 1]]
         /\ _fetch_lock' = [locked |-> TRUE, waiters |-> w]
         /\ last' = NoLast

\* get_stats_cached(force=f) called by task c, up to its first suspension
CallStats(c, f) ==
    LET cl == NewCall(c, "stats", f, StatsUsable(_cache_data), CACHE_TTL, _cache_ts)
    IN  /\ Idle(c)
        /\ workload \in {"stats", "both"}
        /\ IF FastHit(f, clock)
           THEN /\ Finish(c, cl, "fast", RetStats(_cache_data), "none", FALSE)
                /\ UNCHANGED <<call, _fetch_lock>>
           ELSE IF CanAcquire
                THEN UnderLock(c, cl, _fetch_lock.waiters)
                ELSE /\ pc' = [pc EXCEPT ![c] = "waiting"]
                     /\ call' = [call EXCEPT ![c] = cl]
                     /\ _fetch_lock' = [_fetch_lock EXCEPT !.waiters = Append(@, c)]
                     /\ last' = NoLast
        /\ UNCHANGED <<clock, cacheVars, marketVars, hist, workload, chartVars, probeVars>>

\* the first queued task is woken by the release and takes the lock
ResumeStats(c) ==
    /\ pc[c] = "waiting"
    /\ ~_fetch_lock.locked
    /\ _fetch_lock.waiters # <<>>
    /\ Head(_fetch_lock.waiters) = c
    /\ UnderLock(c, call[c], Tail(_fetch_lock.waiters))
    /\ UNCHANGED <<clock, cacheVars, marketVars, hist, workload, chartVars, probeVars>>

\* a slip: the failure is stored as an empty entry
StatsAfterRaise_Clobbers == _cache_data' = <<None, None>> /\ _cache_ts' = clock

\* fetch_stats raised inside the async with block: nothing is assigned
StatsAfterRaise == UNCHANGED cacheVars

\* a slip: the failure is swallowed and the stale entry returned
StatsOnRaise_Stale(e) == RetStats(_cache_data)

\* what get_stats_cached gives its caller when fetch_stats raised e
StatsOnRaise(e) == RetError(e)

\* a slip: the lock is not released
Release_Never == _fetch_lock

\* the lock after the async with block is left
Release == [_fetch_lock EXCEPT !.locked = FALSE]

\* a slip: the value is assigned and the timestamp left as it was
StoreStats_KeepsStamp(d) == _cache_data' = d /\ UNCHANGED _cache_ts

\* line 170: value and timestamp are assigned with no await between them
StoreStats(d) == _cache_data' = d /\ _cache_ts' = clock

\* fetch_stats of task c returns or raises; lines 169-171 and the release
FetchStatsDone(c, p) ==
    /\ StatsFetching(c)
    /\ IF StatsRaises(p)
       THEN /\ StatsAfterRaise
            /\ Finish(c, call[c], "none", StatsOnRaise(p.kind), p.kind, TRUE)
            /\ hist' = IF hist = "init" THEN "init" ELSE "stored_failed"
            /\ call' = [Settle("stats", c, "raised") EXCEPT ![c] = NoCall]
       ELSE /\ StoreStats(ParseStats(p))
            /\ Finish(c, call[c], "none", RetStats(ParseStats(p)), "none", FALSE)
            /\ hist' = "stored"
            /\ call' = [Settle("stats", c, IF StatsUsable(ParseStats(p)) THEN "ok" ELSE "unusable")
                          EXCEPT ![c] = NoCall]
    /\ _fetch_lock' = Release
    /\ UNCHANGED <<clock, marketVars, workload, chartVars, probeVars>>

(***************************************************************************)
(* get_market_cached                                                       *)
(***************************************************************************)
\* a Python float or None is truthy
Truthy(v) == v # None /\ v # Some(0)

\* any(_market_cache.values())
MarketUsable(m) == \E k \in DOMAIN m : Truthy(m[k])

\* line 263
MarketHit(f, now) ==
    ~f /\ (now - _market_cache_ts) < CRYPTO_CACHE_TTL /\ MarketUsable(_market_cache)

\* get_market_cached(force=f) called by task c, up to the gather of line 265
CallMarket(c, f) ==
    LET cl == NewCall(c, "market", f, MarketUsable(_market_cache), CRYPTO_CACHE_TTL, _market_cache_ts)
    IN  /\ Idle(c)
        /\ workload \in {"market", "both", "charts"}
        /\ IF MarketHit(f, clock)
           THEN /\ Finish(c, cl, "fast", RetMarket(_market_cache), "none", FALSE)
                /\ UNCHANGED call
           ELSE /\ pc' = [pc EXCEPT ![c] = "mfetching"]
                /\ call' = [call EXCEPT ![c] = [cl EXCEPT !.nfetch = @ + 1]]
                /\ last' = NoLast
        /\ UNCHANGED <<clock, _fetch_lock, cacheVars, marketVars, hist, workload, chartVars, probeVars>>

\* lines 266-267: value and timestamp are assigned with no await between them
StoreMarket(m) == _market_cache' = m /\ _market_cache_ts' = clock

\* the gather of task c is over with the upstream answers u; lines 266-268
MarketDone(c, u) ==
    /\ MarketFetching(c)
    /\ StoreMarket(MarketOf(u))
    /\ Finish(c, call[c], "none", RetMarket(MarketOf(u)), "none", UpstreamFailed(u))
    /\ call' = [Settle("market", c, IF MarketUsable(MarketOf(u)) THEN "ok" ELSE "unusable")
                  EXCEPT ![c] = NoCall]
    /\ UNCHANGED <<clock, _fetch_lock, cacheVars, hist, workload, chartVars, probeVars>>

(***************************************************************************)
(* nearest_price and calc_changes_from_series                              *)
(*                                                                         *)
(* A series is a sequence of <<timestamp in ms, price>>.  Prices are whole *)
(* numbers here; a quotient is kept as an exact fraction in lowest terms.  *)
(***************************************************************************)
\* the points the series of the model are made of: the timestamps repeat, the
\* prices include zero and a negative one
Points ==
    { <<0, 100>>, <<3600000, 110>>, <<86400000, 150>>,
      <<0, 0>>, <<3600000, 50>>, <<7200000, -10>> }

\* every series of at most MaxSeriesLen points, in any order
AllSeries == UNION {[1..n -> Points] : n \in 0..MaxSeriesLen}

\* the targets nearest_price is asked for
Targets == {-3600000, 0, 1800000, 3600000, 5400000, 82800000}

Abs(x) == IF x < 0 THEN -x ELSE x

RECURSIVE GCD(_, _)
GCD(a, b) == IF b = 0 THEN a ELSE GCD(b, a % b)

\* n / d for d # 0, in lowest terms with a positive denominator
Frac(n, d) ==
    LET g == GCD(Abs(n), Abs(d))
    IN  IF d > 0
        THEN [num |-> n \div g, den |-> d \div g]
        ELSE [num |-> (-n) \div g, den |-> (-d) \div g]

\* the value of an Optional that is not None
Val(o) == CHOOSE v \in o : TRUE

\* a slip: the distance keeps its sign
Key_Signed(series, target_ms, i) == series[i][1] - target_ms

\* key=lambda i: abs(series[i][0] - target_ms)
Key(series, target_ms, i) == Abs(series[i][1] - target_ms)

\* a slip: a later element at the same distance replaces the earlier one
Closer_OrEqual(series, target_ms, i, best) ==
    Key(series, target_ms, i) <= Key(series, target_ms, best)

\* min() keeps the element it holds unless the next one has a smaller key
Closer(series, target_ms, i, best) ==
    Key(series, target_ms, i) < Key(series, target_ms, best)

\* min(range(len(series)), key=...): the scan from index i on, best so far
RECURSIVE MinIndex(_, _, _, _)
MinIndex(series, target_ms, i, best) ==
    IF i > Len(series)
    THEN best
    ELSE MinIndex(series, target_ms, i + 1,
                  IF Closer(series, target_ms, i, best) THEN i ELSE best)

\* a slip: the empty series is not looked for
IsEmpty_Never(series) == FALSE

\* not series
IsEmpty(series) == series = <<>>

\* lines 364-367; IndexError stands for min() of an empty range raising
nearest_price(series, target_ms) ==
    IF IsEmpty(series)
    THEN [kind |-> "value", v |-> None]
    ELSE IF Len(series) = 0
         THEN [kind |-> "error", v |-> None]
         ELSE [kind |-> "value", v |-> Some(series[MinIndex(series, target_ms, 2, 1)][2])]

\* for label, hours in (("1h", 1), ("6h", 6), ("24h", 24)), with the keys
\* f"d{label}" and f"p{label}"
Windows ==
    << [d |-> "d1h", p |-> "p1h", hours |-> 1],
       [d |-> "d6h", p |-> "p6h", hours |-> 6],
       [d |-> "d24h", p |-> "p24h", hours |-> 24] >>

ResultKeys == {"now", "d1h", "p1h", "d6h", "p6h", "d24h", "p24h"}

\* out[k] = v
Put(out, k, v) == [x \in DOMAIN out \cup {k} |-> IF x = k THEN v ELSE out[x]]

\* a slip: the comparison price is only tested for None
Guard_NotNone(prev) == prev # None

\* a slip: only the truthiness of the comparison price is looked at
Guard_Truthy(prev) == prev # None /\ Val(prev) # 0

\* a slip: a comparison price of zero is let through
Guard_NonNegative(prev) == prev # None /\ Val(prev) >= 0

\* if prev and prev > 0
Guard(prev) == prev # None /\ Val(prev) # 0 /\ Val(prev) > 0

\* a slip: the reference time is the clock, in ms, not the series' last timestamp
NowMs_WallClock(series) == clock * 1000

\* now_ms = series[-1][0]
NowMs(series) == series[Len(series)][1]

\* a slip: the current price is taken from the market cache when it has one
NowPrice_FromCache(series) ==
    IF _market_cache.BTC # None THEN Val(_market_cache.BTC) ELSE series[Len(series)][2]

\* now_price = series[-1][1]
NowPrice(series) == series[Len(series)][2]

\* the loop of lines 375-381 over the windows ws, out being the dict so far;
\* ends with the dict, or with the error a statement of the body raised
RECURSIVE WindowLoop(_, _, _)
WindowLoop(series, out, ws) ==
    IF ws = <<>>
    THEN [kind |-> "value", out |-> out]
    ELSE LET w == Head(ws)
             prev == nearest_price(series, NowMs(series) - w.hours * 3600 * 1000)
         IN  IF prev.kind = "error"
             THEN [kind |-> "error", out |-> <<>>]
             ELSE IF Guard(prev.v)
                  THEN IF Val(prev.v) = 0
                       THEN [kind |-> "error", out |-> <<>>]     \* ZeroDivisionError
                       ELSE LET d == NowPrice(series) - Val(prev.v)
                                p == Frac(d * 100, Val(prev.v))
                            IN  WindowLoop(series, Put(Put(out, w.d, Some(d)), w.p, Some(p)), Tail(ws))
                  ELSE WindowLoop(series, Put(Put(out, w.d, None), w.p, None), Tail(ws))

\* lines 369-382
calc_changes_from_series(series) ==
    IF IsEmpty(series)
    THEN [kind |-> "value", out |-> [k \in ResultKeys |-> None]]
    ELSE IF Len(series) = 0
         THEN [kind |-> "error", out |-> <<>>]                   \* series[-1]: IndexError
         ELSE WindowLoop(series, Put(<<>>, "now", Some(NowPrice(series))), Windows)

\* no call made yet
NoChg == [kind |-> "none", out |-> <<>>]
NoNearest == [target |-> 0, kind |-> "none", v |-> None]

\* nearest_price(chart_series, t) is called
Nearest(t) ==
    /\ workload = "analyzer"
    /\ LET r == nearest_price(chart_series, t)
       IN  nearest' = [target |-> t, kind |-> r.kind, v |-> r.v]
    /\ UNCHANGED <<clock, _fetch_lock, cacheVars, marketVars, pc, call, last, hist, workload, probeVars,
                   chart_series, chg, CHART_PREFS, seen>>

\* calc_changes_from_series(chart_series) is called
Analyze ==
    /\ workload = "analyzer"
    /\ chg = NoChg
    /\ chg' = calc_changes_from_series(chart_series)
    /\ UNCHANGED <<clock, _fetch_lock, cacheVars, marketVars, pc, call, last, hist, workload, probeVars,
                   chart_series, nearest, CHART_PREFS, seen>>

(***************************************************************************)
(* The chart handlers                                                      *)
(***************************************************************************)
Chats == Tasks

\* {"coin": "BTC", "tf": "7d"}
DefaultPref == [coin |-> "BTC", tf |-> "7d"]

\* CHART_PREFS.get(chat_id) or {"coin": "BTC", "tf": "7d"}
PrefOf(chat) == IF chat \in DOMAIN CHART_PREFS THEN CHART_PREFS[chat] ELSE DefaultPref

\* the callback data the handlers are registered for, lines 725-726
CoinData == {"charts_coin_BTC", "charts_coin_ETH"}
TfData == {"charts_tf_24h", "charts_tf_7d", "charts_tf_30d"}

\* line 609: "BTC" if q.data.endswith("BTC") else "ETH"
CoinOf(data) == IF data = "charts_coin_BTC" THEN "BTC" ELSE "ETH"

\* line 626: "24h" if "24h" in q.data else ("30d" if "30d" in q.data else "7d")
TfOf(data) ==
    IF data = "charts_tf_24h" THEN "24h" ELSE IF data = "charts_tf_30d" THEN "30d" ELSE "7d"

\* handle_charts_menu, lines 581-583: the preference in use is stored
handle_charts_menu(chat) ==
    /\ workload = "charts"
    /\ CHART_PREFS' = Put(CHART_PREFS, chat, PrefOf(chat))
    /\ last' = NoLast
    /\ UNCHANGED <<clock, _fetch_lock, cacheVars, marketVars, pc, call, hist, workload, probeVars,
                   chart_series, nearest, chg, seen>>

\* a slip: the stored tf is forgotten when the coin is set
charts_set_coin_ResetsTf(chat, coin) ==
    /\ workload = "charts"
    /\ CHART_PREFS' = Put(CHART_PREFS, chat, [DefaultPref EXCEPT !.coin = coin])
    /\ last' = NoLast
    /\ UNCHANGED <<clock, _fetch_lock, cacheVars, marketVars, pc, call, hist, workload, probeVars,
                   chart_series, nearest, chg, seen>>

\* charts_set_coin, lines 608-611, the button pressed being the one of coin
charts_set_coin(chat, coin) ==
    /\ workload = "charts"
    /\ CHART_PREFS' = Put(CHART_PREFS, chat, [PrefOf(chat) EXCEPT !.coin = coin])
    /\ last' = NoLast
    /\ UNCHANGED <<clock, _fetch_lock, cacheVars, marketVars, pc, call, hist, workload, probeVars,
                   chart_series, nearest, chg, seen>>

\* charts_set_tf, lines 625-628
charts_set_tf(chat, tf) ==
    /\ workload = "charts"
    /\ CHART_PREFS' = Put(CHART_PREFS, chat, [PrefOf(chat) EXCEPT !.tf = tf])
    /\ last' = NoLast
    /\ UNCHANGED <<clock, _fetch_lock, cacheVars, marketVars, pc, call, hist, workload, probeVars,
                   chart_series, nearest, chg, seen>>

\* no chart was asked for yet
NoReq == [chat |-> 0, coin |-> "none", tf |-> "none"]

\* what fetch_binance_series may return to send_chart_for_pref
ChartFeeds ==
    { <<>>,
      << <<0, 100>>, <<3600000, 110>>, <<86400000, 150>> >>,
      << <<0, 0>>, <<3600000, 50>> >> }

\* the run so far left the module as imported: no time passed, nothing cached,
\* no preference stored
Untouched == clock = 0 /\ _market_cache = NoMarket /\ CHART_PREFS = <<>>

\* the call of the step just taken was one of calc_changes_from_series
ChartCall == [NoCall EXCEPT !.fn = "chart"]

\* send_chart_for_pref of a chat, lines 409-415, fetch_binance_series having
\* returned s
SendChart(chat, s) ==
    /\ workload = "charts"
    /\ chart_req' = [chat |-> chat, coin |-> PrefOf(chat).coin, tf |-> PrefOf(chat).tf]
    /\ chart_series' = s
    /\ IF s = <<>>
       THEN /\ chg' = NoChg
            /\ last' = NoLast
            /\ seen' = seen
       ELSE /\ chg' = calc_changes_from_series(s)
            /\ last' = [NoLast EXCEPT !.call = ChartCall]
            /\ seen' = IF s \in DOMAIN seen
                       THEN seen
                       ELSE Put(seen, s, [chg |-> calc_changes_from_series(s), untouched |-> Untouched])
    /\ UNCHANGED <<clock, _fetch_lock, cacheVars, marketVars, pc, call, hist, workload, crypto,
                   nearest, CHART_PREFS>>

\* charts_refresh, lines 638-642: nothing but send_chart_for_pref, which is
\* also the last step of the three other chart handlers
charts_refresh(chat, s) == SendChart(chat, s)

\* the same constant k added to every timestamp of the series
Shift(series, k) == [i \in 1..Len(series) |-> <<series[i][1] + k, series[i][2]>>]

\* the constants added: an hour later, 25 hours earlier
Shifts == {3600000, -90000000}

\* calc_changes_from_series is called on chart_series shifted by k
AnalyzeShifted(k) ==
    /\ workload = "analyzer"
    /\ Shift(chart_series, k) \notin DOMAIN seen
    /\ seen' = Put(seen, Shift(chart_series, k),
                   [chg |-> calc_changes_from_series(Shift(chart_series, k)),
                    untouched |-> Untouched])
    /\ UNCHANGED <<clock, _fetch_lock, cacheVars, marketVars, pc, call, last, hist, workload, probeVars,
                   chart_series, nearest, chg, CHART_PREFS>>

\* what Binance may answer for the three symbols and Coinbase for its two
BinanceAnswers ==
    [{"BTC", "ETH", "BNB"} ->
        {Resp("ok", 1), Resp("status", 0), Resp("timeout", 0), Resp("malformed", 0)}]
CoinbaseAnswers == {AllResp("ok", 2), AllResp("status", 0), AllResp("timeout", 0)}

\* fetch_crypto_prices was not called yet
NoCrypto == [b |-> AllResp("none", 0), c |-> AllResp("none", 0),
             secondary |-> FALSE, prices |-> NoPrices]

\* fetch_crypto_prices, lines 209-230, Binance answering b and Coinbase,
\* if asked, c
fetch_crypto_prices(b, c) ==
    /\ workload = "prices"
    /\ crypto' = [b |-> b, c |-> c, secondary |-> CoinbaseTried(b),
                  prices |-> FetchCryptoPrices(b, c)]
    /\ last' = NoLast
    /\ UNCHANGED <<clock, _fetch_lock, cacheVars, marketVars, pc, call, hist, workload,
                   chartVars, chart_req>>

\* time passes
Tick ==
    /\ clock + TickStep <= MaxTicks * TickStep
    /\ clock' = clock + TickStep
    /\ last' = NoLast
    /\ UNCHANGED <<_fetch_lock, cacheVars, marketVars, pc, call, hist, workload, chartVars, probeVars>>

\* the state of the module once imported
Imported ==
    /\ clock = 0
    /\ _fetch_lock = [locked |-> FALSE, waiters |-> <<>>]
    /\ _cache_ts = 0
    /\ _cache_data = <<None, None>>
    /\ _market_cache_ts = 0
    /\ _market_cache = NoMarket
    /\ pc = [c \in Tasks |-> "idle"]
    /\ call = [c \in Tasks |-> NoCall]
    /\ last = NoLast
    /\ hist = "init"
    /\ nearest = NoNearest
    /\ chg = NoChg
    /\ CHART_PREFS = <<>>
    /\ seen = <<>>
    /\ crypto = NoCrypto
    /\ chart_req = NoReq

\* no series fetched yet
Start == Imported /\ chart_series = <<>>

\* The two caches share no state, so a run that uses the handlers of one key
\* only shows all that the functions of that key can do.
Init == Start /\ workload \in {"stats", "market"}

\* the handlers of both keys in one run
JointInit == Start /\ workload = "both"

Next ==
    \/ \E c \in Tasks, f \in BOOLEAN : CallStats(c, f)
    \/ \E c \in Tasks : ResumeStats(c)
    \/ \E c \in Tasks, p \in StatsResponses : FetchStatsDone(c, p)
    \/ \E c \in Tasks, f \in BOOLEAN : CallMarket(c, f)
    \/ \E c \in Tasks, u \in MarketResponses : MarketDone(c, u)
    \/ Tick

Spec == Init /\ [][Next]_vars

\* the answers that differ in how a call goes on: a raise, a usable tuple, an
\* unusable one
LiveResponses ==
    {p \in StatsResponses : p.kind \in {"timeout", "json"} /\ p.shape \in {"none", "totals"}}

\* for the run with both keys: a market refresh that stores prices and one
\* whose requests all fail
JointMarketResponses ==
    {u \in MarketResponses : UpstreamFailed(u) \/ (u.x1.kind = "ok" /\ u.b["BTC"].v = 1)}

\* the handlers of both keys; time stands still in this run: whether a call
\* waits depends on _fetch_lock, and a forced call or an unusable entry takes a
\* call past the freshness check as an expired entry does
JointNext ==
    \/ \E c \in Tasks, f \in BOOLEAN : CallStats(c, f)
    \/ \E c \in Tasks : ResumeStats(c)
    \/ \E c \in Tasks, p \in LiveResponses : FetchStatsDone(c, p)
    \/ \E c \in Tasks, f \in BOOLEAN : CallMarket(c, f)
    \/ \E c \in Tasks, u \in JointMarketResponses : MarketDone(c, u)

JointSpec == JointInit /\ [][JointNext]_vars

\* the stats handlers alone
NextStats ==
    \/ \E c \in Tasks, f \in BOOLEAN : CallStats(c, f)
    \/ \E c \in Tasks : ResumeStats(c)
    \/ \E c \in Tasks, p \in LiveResponses : FetchStatsDone(c, p)
    \/ Tick

\* The event loop runs a task that is ready, and every fetch_stats invocation
\* returns or raises in the end (its client has a timeout of 20 s).
StatsInit == Start /\ workload = "stats"

LiveSpec ==
    /\ StatsInit
    /\ [][NextStats]_vars
    /\ \A c \in Tasks : WF_vars(ResumeStats(c))
    /\ \A c \in Tasks : WF_vars(\E p \in LiveResponses : FetchStatsDone(c, p))

\* the analyzer alone, on every series of the bounded set
AnalyzerInit == Imported /\ workload = "analyzer" /\ chart_series \in AllSeries

AnalyzerNext ==
    \/ \E t \in Targets : Nearest(t)
    \/ Analyze

AnalyzerSpec == AnalyzerInit /\ [][AnalyzerNext]_vars

\* the analyzer on every series of the bounded set and on its shifted copies
ShiftNext ==
    \/ Analyze
    \/ \E k \in Shifts : AnalyzeShifted(k)

ShiftSpec == AnalyzerInit /\ [][ShiftNext]_vars

\* the chart handlers of one chat, the clock, and the market cache, which one
\* task refreshes on demand
ChartInit == Start /\ workload = "charts"

ChartNext ==
    \/ \E coin \in {"BTC", "ETH"} : charts_set_coin(1, coin)
    \/ \E tf \in {"24h", "7d", "30d"} : charts_set_tf(1, tf)
    \/ \E s \in ChartFeeds : SendChart(1, s)
    \/ \E f \in BOOLEAN : CallMarket(1, f)
    \/ \E u \in JointMarketResponses : MarketDone(1, u)
    \/ Tick

ChartSpec == ChartInit /\ [][ChartNext]_vars

\* what fetch_binance_series returns in the runs of the chart handlers of
\* several chats: nothing, or two points
PrefsFeeds == { <<>>, << <<0, 0>>, <<3600000, 50>> >> }

\* the chart handlers of several chats, interleaved in any order
PrefsNext ==
    \/ \E chat \in Chats : handle_charts_menu(chat)
    \/ \E chat \in Chats, data \in CoinData : charts_set_coin(chat, CoinOf(data))
    \/ \E chat \in Chats, data \in TfData : charts_set_tf(chat, TfOf(data))
    \/ \E chat \in Chats, s \in PrefsFeeds : charts_refresh(chat, s)

PrefsSpec == ChartInit /\ [][PrefsNext]_vars

\* fetch_crypto_prices alone, on every combination of the answers
PricesInit == Start /\ workload = "prices"

PricesNext == \E b \in BinanceAnswers, c \in CoinbaseAnswers : fetch_crypto_prices(b, c)

PricesSpec == PricesInit /\ [][PricesNext]_vars

TypeOK ==
    /\ pc \in [Tasks -> {"idle", "waiting", "fetching", "mfetching"}]
    /\ _fetch_lock.locked \in BOOLEAN
    /\ clock \in 0..(MaxTicks * TickStep)
    /\ \A c \in Tasks : Idle(c) <=> call[c] = NoCall

(***************************************************************************)
(* Properties                                                              *)
(***************************************************************************)
\* the call that has just ended was a forced get_stats_cached that had started
\* while the fetch of another forced call was in flight
ForcedJoinedForced ==
    /\ last.call.fn = "stats"
    /\ last.call.force
    /\ last.call.joined # "no"
    /\ last.call.jforced

C2_OneStatsFetchInFlight ==
    Cardinality({c \in Tasks : StatsFetching(c)}) <= 1

\* a forced and an unforced caller overlap: one fetches, the other is queued
C2_Witness ==
    \E c, d \in Tasks :
        /\ StatsFetching(c)
        /\ pc[d] = "waiting"
        /\ call[c].force # call[d].force

\* C3, as stated: at most one market refresh (the gather of fetch_crypto_prices
\* and fetch_usd_rub) is in flight at any time.
C3_OneMarketRefreshInFlight ==
    Cardinality({c \in Tasks : MarketFetching(c)}) <= 1

\* C4, as stated: an unforced call that arrives during an in-flight fetch of its
\* key invokes no fetch while that fetch is in flight, and none after it has
\* stored a usable value: it returns the cached value. For both functions.
C4_UnforcedCoalesce ==
    /\ \A d \in Tasks :
          (call[d].fn # "none" /\ ~call[d].force /\ call[d].joined \in {"inflight", "ok"})
              => call[d].nfetch = 0
    /\ (last.call.fn # "none" /\ ~last.call.force /\ last.call.joined = "ok")
          => last.call.nfetch = 0 /\ last.ret.kind = "value"

\* the call that has just ended was unforced and found a usable entry
UnforcedOnUsable ==
    last.call.fn # "none" /\ ~last.call.force /\ last.call.usable0

\* the call that has just ended returned what the cache of its key holds
ReturnedCached ==
    /\ last.call.nfetch = 0
    /\ last.ret.kind = "value"
    /\ last.call.fn = "stats" => last.ret.stats = _cache_data
    /\ last.call.fn = "market" => last.ret.market = _market_cache

\* C5, as stated: an unforced call made at time t on a usable entry stored at
\* time T returns the stored value without fetching when t - T < TTL, and
\* invokes the fetch when t - T >= TTL. For both functions.
C5_TtlHonored ==
    UnforcedOnUsable =>
        /\ last.call.young0 => ReturnedCached /\ last.hit = "fast"
        /\ ~last.call.young0 => last.call.nfetch = 1

\* C5, amended: as stated, except that a get_stats_cached call made when
\* t - T >= TTL, which then waits for _fetch_lock, does not fetch if it finds,
\* once it holds the lock, a usable entry younger than CACHE_TTL (stored by
\* another call's fetch meanwhile): it returns that entry.
C5_TtlHonoredOrCoalesced ==
    UnforcedOnUsable =>
        /\ last.call.young0 => ReturnedCached /\ last.hit = "fast"
        /\ ~last.call.young0 =>
              \/ last.call.nfetch = 1 /\ last.hit = "none"
              \/ /\ last.call.fn = "stats"
                 /\ last.hit = "recheck"
                 /\ ReturnedCached
                 /\ (clock - _cache_ts) < CACHE_TTL
                 /\ \A i \in 1..2 : _cache_data[i] # None

\* an unforced call found a usable entry of age >= TTL and fetched
C5_Witness ==
    UnforcedOnUsable /\ ~last.call.young0 /\ last.call.nfetch = 1 /\ last.ret.kind = "value"

\* C6: every forced call, of get_stats_cached or of get_market_cached, invokes
\* its upstream fetch in that call, whatever the entry holds and also when
\* another call refreshed the entry while it waited for the lock.
C6_ForcedAlwaysFetches ==
    /\ (last.call.fn # "none" /\ last.call.force) => last.call.nfetch = 1 /\ last.hit = "none"
    /\ \A c \in Tasks :
          (call[c].force /\ pc[c] \in {"fetching", "mfetching"}) => call[c].nfetch = 1

\* a forced call found a fresh usable entry at its start, waited while another
\* call's fetch stored a usable value, and still fetched
C6_Witness ==
    /\ last.call.fn = "stats"
    /\ last.call.force
    /\ last.call.young0 /\ last.call.usable0
    /\ last.call.joined = "ok"
    /\ last.call.nfetch = 1

\* in this step task c starts an unforced get_stats_cached call
StartsUnforcedStats(c) ==
    /\ Idle(c)
    /\ \/ pc'[c] # "idle" /\ call'[c].fn = "stats" /\ ~call'[c].force
       \/ /\ pc'[c] = "idle"
          /\ last'.call.fn = "stats" /\ ~last'.call.force /\ last'.hit = "fast"

\* in this step the fetch_stats invocation of task c raises
StatsFetchRaises(c) ==
    StatsFetching(c) /\ pc'[c] = "idle" /\ last'.fetchErr # "none"

\* when fetch_stats raises, the entry is untouched and the call raises
RaiseLeavesEntry ==
    \A c \in Tasks :
        StatsFetchRaises(c) =>
            /\ _cache_data' = _cache_data
            /\ _cache_ts' = _cache_ts
            /\ last'.ret.kind = "error"

\* C7, as stated: when fetch_stats raises, _cache_data and _cache_ts are what
\* they were and the call raises; an unforced call made later, within
\* CACHE_TTL of the successful fetch that stored the entry, returns the entry
\* without fetching.
C7_FailureIsolation ==
    [][ /\ RaiseLeavesEntry
        /\ \A c \in Tasks :
              (StartsUnforcedStats(c) /\ hist = "stored_failed" /\ (clock - _cache_ts) < CACHE_TTL)
                  => /\ pc'[c] = "idle"
                     /\ last'.call.nfetch = 0
                     /\ last'.ret = RetStats(_cache_data) ]_vars

\* C7, amended: as stated, for an entry whose two components are not None; a
\* stored entry with a None component is never returned without fetching.
C7_FailureIsolationUsable ==
    [][ /\ RaiseLeavesEntry
        /\ \A c \in Tasks :
              (StartsUnforcedStats(c) /\ hist = "stored_failed" /\ (clock - _cache_ts) < CACHE_TTL)
                  => IF \A i \in 1..2 : _cache_data[i] # None
                     THEN /\ pc'[c] = "idle"
                          /\ last'.call.nfetch = 0
                          /\ last'.ret = RetStats(_cache_data)
                     ELSE pc'[c] # "idle" ]_vars

\* after a fetch that stored a usable entry a later fetch raised, and an
\* unforced call has just returned the entry from the cache
C7_Witness ==
    /\ hist = "stored_failed"
    /\ last.call.fn = "stats" /\ ~last.call.force
    /\ last.hit = "fast"
    /\ last.ret = RetStats(_cache_data)

\* C8, as stated: when every upstream request of a market refresh fails, the
\* usable entry cached before is untouched and the call raises.
C8_MarketFailureIsolation ==
    [][ \A c \in Tasks :
          (MarketFetching(c) /\ pc'[c] = "idle" /\ last'.upFailed /\ MarketUsable(_market_cache))
              => /\ _market_cache' = _market_cache
                 /\ _market_cache_ts' = _market_cache_ts
                 /\ last'.ret.kind = "error" ]_vars

\* C9: a get_stats_cached call invokes fetch_stats at most once; when that
\* invocation raises, the call raises the same error: no second attempt, no
\* stale value returned.
C9_PassThrough ==
    /\ \A c \in Tasks : call[c].nfetch <= 1
    /\ last.call.fn = "stats" =>
          /\ last.call.nfetch <= 1
          /\ last.fetchErr # "none" =>
                /\ last.call.nfetch = 1
                /\ last.ret.kind = "error"
                /\ last.ret.err = last.fetchErr
                /\ last.ret.stats = <<None, None>>

\* a fetch raised while the cache held a usable entry younger than CACHE_TTL,
\* and the call raised
C9_Witness ==
    /\ last.call.fn = "stats"
    /\ last.fetchErr = "status"
    /\ last.ret.kind = "error"
    /\ (clock - _cache_ts) < CACHE_TTL
    /\ \A i \in 1..2 : _cache_data[i] # None

\* C10: every get_stats_cached call returns or raises in the end; a fetch that
\* raises leaves _fetch_lock released, and a forced caller queued behind it
\* goes on to invoke fetch_stats itself.
C10_NoDeadlock ==
    /\ \A c \in Tasks : (pc[c] \in {"waiting", "fetching"}) ~> (pc[c] = "idle")
    /\ \A c \in Tasks :
          (pc[c] = "waiting" /\ call[c].force /\ call[c].joined = "raised") ~> StatsFetching(c)
    /\ [][\A c \in Tasks : StatsFetchRaises(c) => ~_fetch_lock'.locked]_vars

\* a caller that was queued behind a fetch that raised is fetching
C10_Witness ==
    \E c \in Tasks : StatsFetching(c) /\ call[c].joined = "raised"

\* in this step task c starts an unforced get_market_cached call
StartsUnforcedMarket(c) ==
    /\ Idle(c)
    /\ \/ pc'[c] # "idle" /\ call'[c].fn = "market" /\ ~call'[c].force
       \/ /\ pc'[c] = "idle"
          /\ last'.call.fn = "market" /\ ~last'.call.force /\ last'.hit = "fast"

\* C11: an unforced call on an entry that is fresh (age < TTL) and usable
\* returns the cached value in the step of the call: it does not take or queue
\* on _fetch_lock and invokes no fetch, also while another caller holds the
\* lock with a fetch in flight. For get_stats_cached and get_market_cached.
C11_FastPathNoSuspend ==
    [][ \A c \in Tasks :
          /\ (StartsUnforcedStats(c) /\ (clock - _cache_ts) < CACHE_TTL /\ StatsUsable(_cache_data))
                => /\ pc'[c] = "idle"
                   /\ last'.hit = "fast"
                   /\ last'.call.nfetch = 0
                   /\ last'.ret = RetStats(_cache_data)
                   /\ _fetch_lock' = _fetch_lock
                   /\ UNCHANGED cacheVars
          /\ (StartsUnforcedMarket(c) /\ (clock - _market_cache_ts) < CRYPTO_CACHE_TTL
                                      /\ MarketUsable(_market_cache))
                => /\ pc'[c] = "idle"
                   /\ last'.hit = "fast"
                   /\ last'.call.nfetch = 0
                   /\ last'.ret = RetMarket(_market_cache)
                   /\ _fetch_lock' = _fetch_lock
                   /\ UNCHANGED marketVars ]_vars

\* an unforced get_stats_cached call has just returned the fresh entry while
\* another task holds _fetch_lock with its fetch in flight
C11_Witness ==
    /\ last.call.fn = "stats" /\ ~last.call.force
    /\ last.hit = "fast"
    /\ last.call.joined = "inflight"
    /\ _fetch_lock.locked
    /\ \E d \in Tasks : StatsFetching(d)

\* C12: the keys are independent. Whatever get_stats_cached calls hold or
\* queue on _fetch_lock, an idle task can call get_market_cached and start its
\* refresh at once; whatever market refreshes are in flight, an idle task can
\* call get_stats_cached and start fetch_stats at once when no stats caller
\* holds or waits for the lock; and only get_stats_cached calls hold or wait
\* for the lock.
C12_KeysIndependent ==
    /\ \A c \in Tasks :
          Idle(c) => ENABLED (CallMarket(c, TRUE) /\ pc'[c] = "mfetching")
    /\ \A c \in Tasks :
          (Idle(c) /\ \A d \in Tasks : pc[d] \notin {"waiting", "fetching"})
              => ENABLED (CallStats(c, TRUE) /\ pc'[c] = "fetching")
    /\ _fetch_lock.locked => \E d \in Tasks : StatsFetching(d) /\ call[d].fn = "stats"
    /\ \A i \in 1..Len(_fetch_lock.waiters) :
          LET d == _fetch_lock.waiters[i]
          IN  pc[d] = "waiting" /\ call[d].fn = "stats"

\* a fetch_stats invocation and a market refresh are in flight together
C12_Witness ==
    \E c, d \in Tasks :
        /\ StatsFetching(c) /\ _fetch_lock.locked
        /\ MarketFetching(d)
        /\ call[c].nfetch = 1 /\ call[d].nfetch = 1

\* the call that has just ended was a get_stats_cached call that began while
\* another call's fetch_stats was in flight, and waited for the lock
WaitedBehindFetch ==
    /\ last.call.fn = "stats"
    /\ last.call.joined # "no"
    /\ last.hit # "fast"

\* C13: a get_stats_cached call B that began while A's fetch was in flight and
\* waited for the lock returns either what its own fetch, made after A's, has
\* just stored, or the entry as stored by a fetch that ended after B began
\* (A's fetch or a later one, since fetches of the key never overlap); never
\* an entry stored before A's fetch.
C13_FreshnessOrdering ==
    (WaitedBehindFetch /\ last.ret.kind = "value") =>
        /\ last.call.joined # "inflight"
        /\ last.ret.stats = _cache_data
        /\ \/ last.hit = "none" /\ last.call.nfetch = 1 /\ _cache_ts = clock
           \/ last.hit = "recheck" /\ last.call.nfetch = 0 /\ last.call.stored

\* an unforced call found a usable entry older than CACHE_TTL while A's fetch
\* was in flight, waited for the lock and returned what A's fetch stored
C13_Witness ==
    /\ WaitedBehindFetch
    /\ last.ret.kind = "value"
    /\ last.hit = "recheck"
    /\ last.call.joined = "ok"
    /\ last.call.usable0 /\ ~last.call.young0

\* the series of the delta example
DeltaExample == << <<0, 100>>, <<3600000, 110>>, <<86400000, 150>> >>

\* C14, as stated: for the series [(0,100),(3600000,110),(86400000,150)] the 1h
\* comparison point (nearest to 86400000 - 3600000 = 82800000) is (3600000,110),
\* d1h = 150 - 110 = 40 and p1h = 40 / 110 * 100.
C14_DeltaExample ==
    /\ (chart_series = DeltaExample /\ nearest.kind = "value" /\ nearest.target = 82800000)
          => nearest.v = Some(110)
    /\ (chart_series = DeltaExample /\ chg # NoChg)
          => /\ chg.kind = "value"
             /\ chg.out["d1h"] = Some(40)
             /\ chg.out["p1h"] = Some(Frac(40 * 100, 110))

\* C14, amended: for that series the element nearest to 82800000 is the last
\* one, (86400000,150), at distance 3600000 (the element (3600000,110) is at
\* distance 79200000); the 1h comparison point is the current point itself and
\* d1h = 0, p1h = 0. The same holds for 6h; the 24h comparison point is
\* (0,100), d24h = 50 and p24h = 50.
C14_DeltaExampleNearestIsLast ==
    /\ (chart_series = DeltaExample /\ nearest.kind = "value" /\ nearest.target = 82800000)
          => nearest.v = Some(150)
    /\ (chart_series = DeltaExample /\ chg # NoChg)
          => /\ chg.kind = "value"
             /\ chg.out["now"] = Some(150)
             /\ chg.out["d1h"] = Some(0) /\ chg.out["p1h"] = Some(Frac(0, 1))
             /\ chg.out["d6h"] = Some(0) /\ chg.out["p6h"] = Some(Frac(0, 1))
             /\ chg.out["d24h"] = Some(50) /\ chg.out["p24h"] = Some(Frac(50, 1))

\* both functions have been applied to the example series
C14_Witness ==
    /\ chart_series = DeltaExample
    /\ chg.kind = "value"
    /\ nearest.kind = "value" /\ nearest.target = 82800000

\* how far the element i of the analysed series is from the target t
Distance(i, t) ==
    IF chart_series[i][1] >= t THEN chart_series[i][1] - t ELSE t - chart_series[i][1]

\* C15: for every non-empty series, sorted or not, and every target,
\* nearest_price returns the value of the element at the smallest index whose
\* distance to the target is minimal: no element is strictly closer, and every
\* element before it is strictly farther.
C15_NearestFirstMinimal ==
    (nearest.kind # "none" /\ chart_series # <<>>) =>
        /\ nearest.kind = "value"
        /\ \E i \in 1..Len(chart_series) :
              /\ nearest.v = Some(chart_series[i][2])
              /\ \A j \in 1..Len(chart_series) : Distance(j, nearest.target) >= Distance(i, nearest.target)
              /\ \A j \in 1..(i - 1) : Distance(j, nearest.target) > Distance(i, nearest.target)

\* two elements of an unsorted series are equally near the target and have
\* different prices; the price of the earlier index has been returned
C15_Witness ==
    /\ nearest.kind = "value"
    /\ \E i, j \in 1..Len(chart_series) :
          /\ i < j
          /\ chart_series[i][1] > chart_series[j][1]
          /\ Distance(i, nearest.target) = Distance(j, nearest.target)
          /\ \A k \in 1..Len(chart_series) : Distance(k, nearest.target) >= Distance(i, nearest.target)
          /\ chart_series[i][2] # chart_series[j][2]
          /\ nearest.v = Some(chart_series[i][2])

\* the smallest index of the analysed series whose element is nearest to t
FirstNearest(t) ==
    CHOOSE i \in 1..Len(chart_series) :
        /\ \A j \in 1..Len(chart_series) : Distance(j, t) >= Distance(i, t)
        /\ \A j \in 1..(i - 1) : Distance(j, t) > Distance(i, t)

\* the price of the comparison point of the window of h hours
ComparisonPrice(h) ==
    chart_series[FirstNearest(chart_series[Len(chart_series)][1] - h * 3600000)][2]

\* the price of the last element
CurrentPrice == chart_series[Len(chart_series)][2]

\* the d and p entries of the window w are those of the comparison price v
WindowAsSpecified(w, v) ==
    IF v > 0
    THEN /\ chg.out[w.d] = Some(CurrentPrice - v)
         /\ chg.out[w.p] # None
         /\ Val(chg.out[w.p]).den > 0
         /\ Val(chg.out[w.p]).num * v = (CurrentPrice - v) * 100 * Val(chg.out[w.p]).den
    ELSE chg.out[w.d] = None /\ chg.out[w.p] = None

\* the series of the zero guard example
GuardExample == << <<0, 0>>, <<3600000, 50>> >>

\* C16: for every non-empty series and each window w of 1h, 6h, 24h, with v
\* the price of the element nearest to last_timestamp - w: if v > 0 then
\* d_w = current - v and p_w = d_w / v * 100; if v <= 0 then d_w and p_w are
\* both None. For [(0,0),(3600000,50)] the 1h outputs are None.
C16_WindowDeltaAndGuard ==
    /\ (chg # NoChg /\ chart_series # <<>>) =>
          /\ chg.kind = "value"
          /\ \A n \in 1..Len(Windows) :
                WindowAsSpecified(Windows[n], ComparisonPrice(Windows[n].hours))
    /\ (chg # NoChg /\ chart_series = GuardExample) =>
          chg.out["d1h"] = None /\ chg.out["p1h"] = None

\* the zero guard example has been analysed: the current price is 50, the 1h
\* comparison price is 0
C16_Witness ==
    /\ chg.kind = "value"
    /\ chart_series = GuardExample
    /\ ComparisonPrice(1) = 0
    /\ CurrentPrice = 50

\* C17: calc_changes_from_series([]) raises nothing and returns the dict whose
\* entries now, d1h, p1h, d6h, p6h, d24h, p24h are all None; nearest_price on
\* the empty series returns None.
C17_EmptySeries ==
    /\ (chart_series = <<>> /\ chg # NoChg) =>
          /\ chg.kind = "value"
          /\ DOMAIN chg.out = ResultKeys
          /\ \A k \in ResultKeys : chg.out[k] = None
    /\ (chart_series = <<>> /\ nearest.kind # "none") =>
          nearest.kind = "value" /\ nearest.v = None

\* both functions have been applied to the empty series
C17_Witness ==
    /\ chart_series = <<>>
    /\ chg # NoChg
    /\ nearest.kind # "none"

\* the series that has been analysed has exactly one element
SingleAnalysed == chg # NoChg /\ Len(chart_series) = 1

\* C18, as stated: for every series of exactly one element the comparison
\* point of every window is that element, and calc_changes_from_series returns
\* absolute delta 0 and percent delta 0 for every window, without raising.
C18_SingleElementZero ==
    SingleAnalysed =>
        /\ chg.kind = "value"
        /\ \A n \in 1..Len(Windows) :
              /\ ComparisonPrice(Windows[n].hours) = CurrentPrice
              /\ chg.out[Windows[n].d] = Some(0)
              /\ chg.out[Windows[n].p] = Some(Frac(0, 1))

\* C18, amended: for every series of exactly one element the comparison point
\* of every window is that element and nothing is raised; the absolute and the
\* percent delta of every window are 0 when the element's price is > 0, and
\* both None when it is <= 0.
C18_SingleElementZeroOrUnknown ==
    SingleAnalysed =>
        /\ chg.kind = "value"
        /\ chg.out["now"] = Some(CurrentPrice)
        /\ \A n \in 1..Len(Windows) :
              /\ ComparisonPrice(Windows[n].hours) = CurrentPrice
              /\ IF CurrentPrice > 0
                 THEN /\ chg.out[Windows[n].d] = Some(0)
                      /\ chg.out[Windows[n].p] = Some(Frac(0, 1))
                 ELSE /\ chg.out[Windows[n].d] = None
                      /\ chg.out[Windows[n].p] = None

\* a series of one element with a positive price has been analysed
C18_Witness ==
    SingleAnalysed /\ CurrentPrice > 0 /\ chg.out["d24h"] = Some(0)

\* C20: for every series (empty, unsorted, with repeated timestamps, with zero
\* or negative prices) calc_changes_from_series raises nothing and returns a
\* dict with exactly the keys now, d1h, p1h, d6h, p6h, d24h, p24h; the d and
\* the p entry of a window are both None or both defined; now is the price of
\* the last element, and None only for the empty series.
C20_AnalyzerTotal ==
    chg # NoChg =>
        /\ chg.kind = "value"
        /\ DOMAIN chg.out = ResultKeys
        /\ \A n \in 1..Len(Windows) :
              (chg.out[Windows[n].d] = None) <=> (chg.out[Windows[n].p] = None)
        /\ (chg.out["now"] = None) <=> (chart_series = <<>>)
        /\ chart_series # <<>> => chg.out["now"] = Some(chart_series[Len(chart_series)][2])

\* an unsorted series with a repeated timestamp, a zero and a negative price
\* has been analysed, and a window has its delta defined
C20_Witness ==
    /\ chg.kind = "value"
    /\ \E i, j \in 1..Len(chart_series) : i < j /\ chart_series[i][1] > chart_series[j][1]
    /\ \E i, j \in 1..Len(chart_series) : i # j /\ chart_series[i][1] = chart_series[j][1]
    /\ \E i \in 1..Len(chart_series) : chart_series[i][2] = 0
    /\ \E i \in 1..Len(chart_series) : chart_series[i][2] < 0
    /\ \E n \in 1..Len(Windows) : chg.out[Windows[n].d] # None

StatsFetchReturns(c) ==
    StatsFetching(c) /\ pc'[c] = "idle" /\ last'.fetchErr = "none"

\* in this step the gather of task c is over
MarketFetchEnds(c) == MarketFetching(c) /\ pc'[c] = "idle"

\* C21: every step between two suspension points leaves each entry consistent:
\* a step in which a fetch_stats returns stores its result in _cache_data and
\* its completion time in _cache_ts together, a step in which a market gather
\* ends stores its result in _market_cache and its completion time in
\* _market_cache_ts together, and no other step changes the value or the
\* timestamp of either entry, so no caller sees one without the other.
C21_AtomicEntryUpdate ==
    [][ /\ IF \E c \in Tasks : StatsFetchReturns(c)
           THEN /\ last'.ret = RetStats(_cache_data')
                /\ _cache_ts' = clock'
           ELSE UNCHANGED cacheVars
        /\ IF \E c \in Tasks : MarketFetchEnds(c)
           THEN /\ last'.ret = RetMarket(_market_cache')
                /\ _market_cache_ts' = clock'
           ELSE UNCHANGED marketVars ]_vars

\* a fetch that ended later than the module was imported has just replaced an
\* expired usable entry, and the entry carries the time of that completion
C21_Witness ==
    /\ last.call.fn = "stats" /\ last.call.nfetch = 1 /\ last.fetchErr = "none"
    /\ last.call.usable0 /\ ~last.call.young0
    /\ clock > 0 /\ _cache_ts = clock
    /\ last.ret = RetStats(_cache_data)

(***************************************************************************)
(* Order of the cache writes                                               *)
(***************************************************************************)
\* the call that has just ended made a fetch that started while no other fetch
\* of its key was in flight, and that fetch has stored its result
StoredByEarliestFetch ==
    /\ last.call.fn \in {"stats", "market"}
    /\ last.call.nfetch = 1 /\ last.fetchErr = "none"
    /\ last.call.joined = "no"

\* C22: the stored value is never replaced by the result of a fetch that
\* started before the fetch that produced it. A fetch that started while no
\* other fetch of its key was in flight started before every fetch that stored
\* during it, so when it stores, none of them has stored yet. For _cache_data
\* and for _market_cache.
C22_WritesFollowStartOrder ==
    StoredByEarliestFetch => ~last.call.stored

(***************************************************************************)
(* The usable-value predicate                                              *)
(***************************************************************************)
\* the call that has just ended invoked no fetch
ReturnedWithoutFetch(key) ==
    last.call.fn = key /\ last.call.nfetch = 0 /\ last.ret.kind = "value"

\* the entry of the call that has just ended was unusable when the call began
\* and no fetch has stored anything during the call
EntryStayedUnusable ==
    last.call.fn \in {"stats", "market"} /\ ~last.call.usable0 /\ ~last.call.stored

\* C23: get_stats_cached returns a value without fetching only if both cached
\* components are non-None, and get_market_cached only if at least one cached
\* market value is truthy (not None and not 0); the value returned is the
\* entry. Hence a call whose entry is unusable from its beginning to its end
\* (nothing stored yet, or a partial stats tuple, or an all-None market dict)
\* invokes the fetch, however recent the timestamp is.
C23_UsablePredicate ==
    /\ ReturnedWithoutFetch("stats")
          => /\ last.ret.stats = _cache_data
             /\ _cache_data[1] # None /\ _cache_data[2] # None
    /\ ReturnedWithoutFetch("market")
          => /\ last.ret.market = _market_cache
             /\ \E k \in DOMAIN _market_cache :
                    _market_cache[k] # None /\ _market_cache[k] # Some(0)
    /\ EntryStayedUnusable => last.call.nfetch = 1

\* an unforced get_stats_cached call made on a partial tuple that a fetch
\* stored less than CACHE_TTL ago has invoked fetch_stats
C23_Witness ==
    /\ last.call.fn = "stats" /\ ~last.call.force
    /\ hist = "stored" /\ last.call.young0 /\ ~last.call.usable0
    /\ last.call.nfetch = 1

(***************************************************************************)
(* The fallback of fetch_crypto_prices                                     *)
(***************************************************************************)
\* fetch_crypto_prices has been called
CryptoFetched == crypto # NoCrypto

\* a Binance request timed out, answered a non-success status or a payload
\* that does not parse
PrimaryRequestFailed(s) == crypto.b[s].kind \in {"timeout", "status", "malformed"}

\* C24: Coinbase is queried only if a Binance request failed, and is queried
\* whenever Binance delivered no price at all, a failure being a timeout, a
\* non-success HTTP status or a malformed payload: the fetch never ends on a
\* failed primary without the secondary being tried.
C24_OrderedFallback ==
    CryptoFetched =>
        /\ crypto.secondary => \E s \in {"BTC", "ETH", "BNB"} : PrimaryRequestFailed(s)
        /\ (\A s \in {"BTC", "ETH", "BNB"} : PrimaryRequestFailed(s)) => crypto.secondary

(***************************************************************************)
(* Time-shift invariance of the analyzer                                   *)
(***************************************************************************)
\* chart_series and its copy shifted by k have both been analysed
BothAnalysed(k) == chg # NoChg /\ Shift(chart_series, k) \in DOMAIN seen

\* C25: adding the same constant to every timestamp of a series leaves the
\* whole result of calc_changes_from_series unchanged: the call on the shifted
\* series gives the dict (or the error) the call on the series gives.
C25_TimeShiftInvariant ==
    \A k \in Shifts : BothAnalysed(k) => seen[Shift(chart_series, k)].chg = chg

\* a series of several points with a non-zero 1h delta and its copy moved 25
\* hours back, behind the clock, have both been analysed
C25_Witness ==
    /\ BothAnalysed(-90000000)
    /\ Len(chart_series) >= 2
    /\ chg.kind = "value"
    /\ chg.out["d1h"] \notin {None, Some(0)}
    /\ \E i, j \in 1..Len(chart_series) : chart_series[i][1] # chart_series[j][1]
    /\ clock * 1000 > Shift(chart_series, -90000000)[Len(chart_series)][1]

(***************************************************************************)
(* The chart preferences                                                   *)
(***************************************************************************)
\* the coin and tf in use for a chat: the stored ones, BTC and 7d without any
InUse(prefs, chat) ==
    IF chat \in DOMAIN prefs THEN prefs[chat] ELSE [coin |-> "BTC", tf |-> "7d"]

\* every chat but this one has its stored preference, or none, as before
OthersKept(chat) ==
    \A o \in Chats \ {chat} :
        /\ (o \in DOMAIN CHART_PREFS') <=> (o \in DOMAIN CHART_PREFS)
        /\ o \in DOMAIN CHART_PREFS => CHART_PREFS'[o] = CHART_PREFS[o]

\* C26: in every interleaving of the four chart handlers over several chats,
\* charts_set_coin makes the calling chat's coin the one asked and keeps its
\* tf, charts_set_tf makes its tf the one asked and keeps its coin,
\* handle_charts_menu and charts_refresh change no coin or tf (the menu only
\* stores the preference already in use), no handler touches another chat's
\* preference, a chat with no stored preference is treated as BTC, 7d (by the
\* setters and by the chart request), and every stored preference has its coin
\* in {BTC, ETH} and its tf in {24h, 7d, 30d}.
C26_PreferencesFrame ==
    [][ /\ \A chat \in Chats :
            /\ \A coin \in {"BTC", "ETH"} : charts_set_coin(chat, coin) =>
                  /\ chat \in DOMAIN CHART_PREFS'
                  /\ CHART_PREFS'[chat] = [coin |-> coin, tf |-> InUse(CHART_PREFS, chat).tf]
                  /\ OthersKept(chat)
            /\ \A tf \in {"24h", "7d", "30d"} : charts_set_tf(chat, tf) =>
                  /\ chat \in DOMAIN CHART_PREFS'
                  /\ CHART_PREFS'[chat] = [coin |-> InUse(CHART_PREFS, chat).coin, tf |-> tf]
                  /\ OthersKept(chat)
            /\ handle_charts_menu(chat) =>
                  /\ InUse(CHART_PREFS', chat) = InUse(CHART_PREFS, chat)
                  /\ OthersKept(chat)
            /\ \A s \in PrefsFeeds : charts_refresh(chat, s) =>
                  /\ CHART_PREFS' = CHART_PREFS
                  /\ chart_req' = [chat |-> chat, coin |-> InUse(CHART_PREFS, chat).coin,
                                   tf |-> InUse(CHART_PREFS, chat).tf]
        /\ \A chat \in DOMAIN CHART_PREFS' :
              /\ CHART_PREFS'[chat].coin \in {"BTC", "ETH"}
              /\ CHART_PREFS'[chat].tf \in {"24h", "7d", "30d"} ]_vars

\* chat 1 has set ETH and 30d, chat 2 has stored nothing and its chart has
\* just been asked for with BTC and 7d
C26_Witness ==
    /\ 1 \in DOMAIN CHART_PREFS /\ CHART_PREFS[1] = [coin |-> "ETH", tf |-> "30d"]
    /\ 2 \notin DOMAIN CHART_PREFS
    /\ chart_req = [chat |-> 2, coin |-> "BTC", tf |-> "7d"]
====
